---- MODULE Spec2Model ----
(***************************************************************************)
(* A model of the Simpl installer CLI (IJuanTM/simpl-installer).           *)
(*                                                                         *)
(* The repository holds two variants of the installer script:              *)
(*   "install"  src/install.js               archive download, extraction  *)
(*                                           through __temp_extract__      *)
(*   "cdn"      src/unnamed/part_001:1-273   local release cache, liveness *)
(*                                           probe, extraction in place    *)
(* (src/unnamed/part_001:275-541 is a third copy, the same as "install"    *)
(* in everything modelled here but the width of a banner.)                 *)
(* The variable build says which variant is running.                       *)
(*                                                                         *)
(* One behaviour of the model is one run of the process: main() from the   *)
(* parsing of argv to the exit of the process.  Every asynchronous         *)
(* callback the scripts register (response, request error, probe timeout,  *)
(* write stream opened / failed, body chunk, end of body) is one action.   *)
(* The environment produces the events the scripts register a handler for. *)
(***************************************************************************)
EXTENDS Integers, Sequences, FiniteSets, TLC

(* ------------------------------ bounds -------------------------------- *)

\* Longest candidate name (argv word or prompt answer), in characters.
MaxNameLen == 2

\* Most redirect responses the server sends in one fetch.
MaxHops == 2

\* Most body chunks the server sends in one 200 response.
MaxChunks == 2

(* ----------------------------- JS values ------------------------------ *)

\* A JS string is a sequence of characters; null / undefined is Null.
Null == [t |-> "null"]

Str(s) == [t |-> "str", s |-> s]

IsStr(v) == v.t = "str"

\* Characters of the model: a letter, a hyphen, a blank and a slash.
Alphabet == {"a", "-", " ", "/"}

\* The character class [a-zA-Z0-9_-] of the validator, cut to Alphabet.
NameChars == {"a", "-"}

Whitespace == {" "}

SeqsUpTo(S, n) == UNION {[1..k -> S] : k \in 0..n}

Words == SeqsUpTo(Alphabet, MaxNameLen)

RECURSIVE TrimStart(_)
TrimStart(s) ==
  IF s # <<>> /\ Head(s) \in Whitespace THEN TrimStart(Tail(s)) ELSE s

RECURSIVE TrimEnd(_)
TrimEnd(s) ==
  IF s # <<>> /\ s[Len(s)] \in Whitespace
    THEN TrimEnd(SubSeq(s, 1, Len(s) - 1))
    ELSE s

\* String.prototype.trim
Trim(s) == TrimEnd(TrimStart(s))

\* String.prototype.startsWith for a one-character prefix
StartsWith(s, c) == s # <<>> /\ Head(s) = c

\* JS truthiness of a string-or-null value
Truthy(v) == IsStr(v) /\ v.s # <<>>

(* --------------------------- directory trees -------------------------- *)

\* A tree on disk is a set of nodes; a node is a path and a kind.
File(p) == [path |-> p, dir |-> FALSE]

Dir(p) == [path |-> p, dir |-> TRUE]

IsPrefix(p, q) == Len(p) <= Len(q) /\ SubSeq(q, 1, Len(p)) = p

Exists(tree, p) == \E n \in tree : n.path = p

IsDirectory(tree, p) == Dir(p) \in tree

\* fs.readdirSync(dir): the names of the entries of dir
Readdir(tree, d) ==
  {n.path[Len(n.path)] : n \in {m \in tree : Len(m.path) = Len(d) + 1 /\ IsPrefix(d, m.path)}}

Subtree(tree, p) == {n \in tree : IsPrefix(p, n.path)}

\* The nodes of sub, which lie under old, moved under new.
Rebase(sub, old, new) ==
  {[path |-> new \o SubSeq(n.path, Len(old) + 1, Len(n.path)), dir |-> n.dir] : n \in sub}

\* fs.mkdirSync(p, {recursive: true}) for a directory of the working directory
MkdirSync(tree, p) == tree \cup {Dir(p)}

\* fs.renameSync(old, new), POSIX rename(2): a missing target is created, a
\* file replaces a file, a directory replaces an empty directory; a file onto
\* a directory (EISDIR), a directory onto a file (ENOTDIR) and a directory
\* onto a directory that has entries (ENOTEMPTY) throw.
RenameSync(tree, old, new) ==
  LET moved == (tree \ Subtree(tree, old)) \cup Rebase(Subtree(tree, old), old, new)
  IN  IF old = new THEN [threw |-> FALSE, tree |-> tree]
      ELSE IF ~Exists(tree, new) THEN [threw |-> FALSE, tree |-> moved]
      ELSE IF IsDirectory(tree, old) /\ IsDirectory(tree, new) /\ Readdir(tree, new) = {}
        THEN [threw |-> FALSE, tree |-> moved]
      ELSE IF ~IsDirectory(tree, old) /\ ~IsDirectory(tree, new)
        THEN [threw |-> FALSE, tree |-> (moved \ {File(new)}) \cup {File(new)}]
      ELSE [threw |-> TRUE, tree |-> tree]

\* fs.rmSync(p, {recursive: true, force: true})
RmSync(tree, p) == tree \ Subtree(tree, p)

\* fs.rmdirSync(p): removes an empty directory, throws on one with entries
RmdirSync(tree, p) ==
  IF Readdir(tree, p) = {} THEN [threw |-> FALSE, tree |-> tree \ {Dir(p)}]
  ELSE [threw |-> TRUE, tree |-> tree]

(* ------------------------------ archives ------------------------------ *)

\* Directories of the working directory the scripts name: the staging
\* directory of src/install.js and path.join(process.cwd(), projectName).
TempExtract == <<"__temp_extract__">>

TargetDir == <<"<projectName>">>

\* The single top-level directory of a wrapped archive.
Wrapper == "pkg"

\* The nodes a payload is made of: a file, a directory with or without a
\* file, and a file named like the wrapper.
PayloadNodes ==
  {File(<<"a.txt">>), Dir(<<"sub">>), File(<<"sub", "b.txt">>), File(<<Wrapper>>)}

\* A tree is closed when every node's parent directory is a node of it, and
\* no path is both a file and a directory.
Closed(tree, root) ==
  /\ \A n \in tree :
        n.path = root \/ Dir(SubSeq(n.path, 1, Len(n.path) - 1)) \in tree \cup {Dir(<<>>)}
  /\ \A n, m \in tree : n.path = m.path => n = m

Payloads == {P \in SUBSET PayloadNodes : Closed(P, <<>>)}

\* An archive: a payload, directly at the top level or inside Wrapper/.
\* An archive has at least one entry.
Archives ==
  {a \in [wrapped : BOOLEAN, payload : Payloads] : a.wrapped \/ a.payload # {}}

\* The entries of archive a as unzip writes them under directory into.
ArchiveEntries(a, into) ==
  IF a.wrapped
    THEN {Dir(into \o <<Wrapper>>)} \cup Rebase(a.payload, <<>>, into \o <<Wrapper>>)
    ELSE Rebase(a.payload, <<>>, into)

\* What a failing unzip / Expand-Archive may leave under into: nothing, or
\* the directory with some of the entries.
UnzipPartials(a, into) ==
  {{}} \cup {{Dir(into)} \cup S : S \in {T \in SUBSET ArchiveEntries(a, into) :
                                             Closed(T \cup {Dir(into)}, into)}}

\* The orders in which readdirSync may list the names of S.
Orders(S) ==
  {f \in [1..Cardinality(S) -> S] : \A i, j \in 1..Cardinality(S) : f[i] = f[j] => i = j}

\* items.forEach(item => fs.renameSync(join(src, item), join(dst, item))):
\* the first rename that throws ends the loop.
RECURSIVE MoveAll(_, _, _, _)
MoveAll(tree, src, dst, items) ==
  IF items = <<>> THEN [threw |-> FALSE, tree |-> tree]
  ELSE LET r == RenameSync(tree, src \o <<Head(items)>>, dst \o <<Head(items)>>)
       IN  IF r.threw THEN r ELSE MoveAll(r.tree, src, dst, Tail(items))

\* const entries = fs.readdirSync(dir, {withFileTypes: true});
\* entries.length === 1 && entries[0].isDirectory()
SingleDirectory(tree, d) ==
  /\ Cardinality(Readdir(tree, d)) = 1
  /\ \A e \in Readdir(tree, d) : IsDirectory(tree, d \o <<e>>)

\* const sourceDir = entries.length === 1 && entries[0].isDirectory()
\*   ? path.join(tempExtract, entries[0].name) : tempExtract;
StagingSource(tree) ==
  IF SingleDirectory(tree, TempExtract)
    THEN TempExtract \o <<CHOOSE e \in Readdir(tree, TempExtract) : TRUE>>
    ELSE TempExtract

\* The part of extractZip of src/install.js that follows the unzip into
\* __temp_extract__: create destDir, move the entries of the source
\* directory, remove the staging directory.  order is readdirSync's order.
MoveFromStaging(tree, destDir, order) ==
  LET r == MoveAll(MkdirSync(tree, destDir), StagingSource(tree), destDir, order)
  IN  IF r.threw THEN r ELSE [threw |-> FALSE, tree |-> RmSync(r.tree, TempExtract)]

\* The part of extractZip of the cdn variant that follows the unzip into
\* destDir: a single top-level directory is emptied into destDir and removed.
\* const nestedDir = path.join(destDir, entries[0].name), for a destDir that
\* holds a single directory.
NestedDir(tree, destDir) == destDir \o <<CHOOSE e \in Readdir(tree, destDir) : TRUE>>

FlattenInPlace(tree, destDir, order) ==
  IF SingleDirectory(tree, destDir)
    THEN LET r == MoveAll(tree, NestedDir(tree, destDir), destDir, order)
         IN  IF r.threw THEN r ELSE RmdirSync(r.tree, NestedDir(tree, destDir))
    ELSE [threw |-> FALSE, tree |-> tree]

\* countFiles with a count++ for the directory entries as well.
RECURSIVE countFiles_CountsDirectories(_, _)
countFiles_CountsDirectories(tree, d) ==
  LET names == Readdir(tree, d)
      RECURSIVE Sum(_)
      Sum(S) ==
        IF S = {} THEN 0
        ELSE LET e == CHOOSE x \in S : TRUE
             IN  (IF IsDirectory(tree, d \o <<e>>)
                    THEN 1 + countFiles_CountsDirectories(tree, d \o <<e>>)
                    ELSE 1)
                   + Sum(S \ {e})
  IN  Sum(names)

\* countFiles(dir): files count 1, directories the count of their subtree.
RECURSIVE countFiles(_, _)
countFiles(tree, d) ==
  LET names == Readdir(tree, d)
      RECURSIVE Sum(_)
      Sum(S) ==
        IF S = {} THEN 0
        ELSE LET e == CHOOSE x \in S : TRUE
             IN  (IF IsDirectory(tree, d \o <<e>>) THEN countFiles(tree, d \o <<e>>) ELSE 1)
                   + Sum(S \ {e})
  IN  Sum(names)

(* ------------------------------- state -------------------------------- *)

VARIABLES
  build,        \* which variant of the script runs: "install" or "cdn"
  existing,     \* the names that exist in the working directory at start
  cacheHas,     \* {LOCAL_RELEASES_DIR}/{version}/src.zip exists
  pc,           \* where main() stands
  interactive,  \* main took the prompting branch (!projectName)
  projectName,  \* let projectName
  versionLen,   \* version.length (version = args[1] || 'latest')
  lastCheck,    \* the last call of validateProjectName: name, result, lookup
  source,       \* the source downloadFramework settled on
  exitCode,     \* the exit code of the process, -1 while it runs
  outcome,      \* how the run ended
  fileCount,    \* what downloadFramework returned
  tempZip,      \* temp.zip in the working directory
  disk,         \* __temp_extract__ and the target directory, as a tree
  archive,      \* the archive the extraction tool unpacked
  netLog,       \* every request issued: who issued it, to which URL
  locs,         \* the Location headers the running fetch received
  fetch,        \* the running fetchUrl / downloadFile chain
  data,         \* fetchUrl's let data
  fileOpen,     \* the write stream of the running downloadFile
  probe         \* checkServerAvailability's request and promise

envVars == <<build, existing, cacheHas>>

mainVars == <<pc, interactive, projectName, versionLen, lastCheck, source, exitCode, outcome, fileCount>>

fsVars == <<tempZip, disk, archive>>

netVars == <<netLog, locs, fetch, data, fileOpen>>

vars == <<envVars, mainVars, fsVars, netVars, probe>>

Builds == {"install", "cdn"}

\* A file of the working directory: absent, or present with its content.
NoFile == [exists |-> FALSE]

FileOf(content) == [exists |-> TRUE, content |-> content]

\* argv words the scripts compare with
HelpLong == <<"-", "-", "h", "e", "l", "p">>

HelpShort == <<"-", "h">>

ListLong == <<"-", "-", "l", "i", "s", "t", "-", "v", "e", "r", "s", "i", "o", "n", "s">>

ListShort == <<"-", "l", "v">>

\* args[0]: absent, one of the flags, or any word
Args == {Null} \cup {Str(w) : w \in Words \cup {HelpLong, HelpShort, ListLong, ListShort}}

\* version.length for args[1] absent ('latest') and for a long version tag
VersionLens == {6, 43}

\* The width the "Installing:" banner pads to.
BannerPad(b) == IF b = "cdn" THEN 45 ELSE 44

NoCheck == [called |-> FALSE]

\* No rejection yet; no response has been classified.
NoErr == [name |-> "none"]

NoRes == [status |-> 0]

NoFetch == [fn |-> "none", st |-> "idle", hops |-> 0, chunks |-> 0, err |-> NoErr, res |-> NoRes]

NoProbe == [st |-> "idle", result |-> "pending", status |-> 0]

Init ==
  /\ build \in Builds
  /\ existing = {<<"a">>, <<"/">>}
  /\ cacheHas \in BOOLEAN
  /\ pc = "main"
  /\ interactive = FALSE
  /\ projectName = Null
  /\ versionLen \in VersionLens
  /\ lastCheck = NoCheck
  /\ source = "none"
  /\ exitCode = -1
  /\ outcome = "running"
  /\ fileCount = -1
  /\ tempZip = NoFile
  /\ disk = {}
  /\ archive = [given |-> FALSE]
  /\ netLog = <<>>
  /\ locs = <<>>
  /\ fetch = NoFetch
  /\ data = <<>>
  /\ fileOpen = "none"
  /\ probe = NoProbe

(* ----------------------------- validation ----------------------------- *)

\* fs.existsSync(name) for a name relative to the working directory
ExistsSync(name) ==
  \/ name \in existing
  \/ IsStr(projectName) /\ name = projectName.s /\ Exists(disk, TargetDir)

\* validateProjectName with the existence rule moved in front of the
\* character rule.
validateProjectName_ExistsFirst(name) ==
  IF ~IsStr(name) \/ Len(name.s) = 0
    THEN [error |-> "EmptyName", looked |-> FALSE]
  ELSE IF ExistsSync(name.s)
    THEN [error |-> "DirectoryExists", looked |-> TRUE]
  ELSE IF \E i \in 1..Len(name.s) : name.s[i] \notin NameChars
    THEN [error |-> "InvalidCharacters", looked |-> TRUE]
  ELSE [error |-> "none", looked |-> TRUE]

\* validateProjectName(name): the error (or "none") and whether the file
\* system was looked at.
validateProjectName(name) ==
  IF ~IsStr(name) \/ Len(name.s) = 0
    THEN [error |-> "EmptyName", looked |-> FALSE]
  ELSE IF \E i \in 1..Len(name.s) : name.s[i] \notin NameChars
    THEN [error |-> "InvalidCharacters", looked |-> FALSE]
  ELSE IF ExistsSync(name.s)
    THEN [error |-> "DirectoryExists", looked |-> TRUE]
  ELSE [error |-> "none", looked |-> TRUE]

Checked(name) ==
  [called |-> TRUE, name |-> name, error |-> validateProjectName(name).error,
   looked |-> validateProjectName(name).looked]

(* -------------------------------- main -------------------------------- *)

\* process.exit(code), or the end of main() for code 0
Exit(code, how) ==
  /\ pc' = "exited"
  /\ exitCode' = code
  /\ outcome' = how

\* firstArg === '--help' || firstArg === '-h'
MainHelp ==
  /\ pc = "main"
  /\ \E firstArg \in {Str(HelpLong), Str(HelpShort)} : Exit(0, "help")
  /\ UNCHANGED <<envVars, interactive, projectName, versionLen, lastCheck, source, fileCount,
                 fsVars, netVars, probe>>

\* let projectName = firstArg && !firstArg.startsWith('-') ? firstArg : null;
\* if (!projectName) { ...prompt loop } else { ...validate }
MainName ==
  /\ pc = "main"
  /\ \E firstArg \in Args \ {Str(HelpLong), Str(HelpShort), Str(ListLong), Str(ListShort)} :
       LET name == IF Truthy(firstArg) /\ ~StartsWith(firstArg.s, "-") THEN firstArg ELSE Null
       IN  /\ projectName' = name
           /\ interactive' = ~Truthy(name)
           /\ pc' = IF Truthy(name) THEN "validate" ELSE "prompt"
  /\ UNCHANGED <<envVars, versionLen, lastCheck, source, exitCode, outcome, fileCount,
                 fsVars, netVars, probe>>

\* A prompt loop that breaks after the first answer, valid or not.
Prompt_BreaksOnError ==
  /\ pc = "prompt"
  /\ \E answer \in Words :
       /\ projectName' = Str(Trim(answer))
       /\ lastCheck' = Checked(Str(Trim(answer)))
       /\ pc' = "banner"
  /\ UNCHANGED <<envVars, interactive, versionLen, source, exitCode, outcome, fileCount,
                 fsVars, netVars, probe>>

\* One turn of the while (true) loop: prompt, trim, validate, continue or break.
Prompt ==
  /\ pc = "prompt"
  /\ \E answer \in Words :
       /\ projectName' = Str(Trim(answer))
       /\ lastCheck' = Checked(Str(Trim(answer)))
       /\ pc' = IF Checked(Str(Trim(answer))).error # "none" THEN "prompt" ELSE "banner"
  /\ UNCHANGED <<envVars, interactive, versionLen, source, exitCode, outcome, fileCount,
                 fsVars, netVars, probe>>

\* The else branch: validate the name of the command line, exit 1 on error.
ValidateArg ==
  /\ pc = "validate"
  /\ lastCheck' = Checked(projectName)
  /\ IF Checked(projectName).error # "none"
       THEN Exit(1, "invalidName")
       ELSE pc' = "banner" /\ UNCHANGED <<exitCode, outcome>>
  /\ UNCHANGED <<envVars, interactive, projectName, versionLen, source, fileCount,
                 fsVars, netVars, probe>>

\* ' '.repeat(pad - projectName.length - version.length) throws a RangeError
\* for a negative count, outside the try block: main().catch exits with 1.
Banner ==
  /\ pc = "banner"
  /\ IF BannerPad(build) - Len(projectName.s) - versionLen < 0
       THEN Exit(1, "fatal")
       ELSE pc' = "downloadFramework" /\ UNCHANGED <<exitCode, outcome>>
  /\ UNCHANGED <<envVars, interactive, projectName, versionLen, lastCheck, source, fileCount,
                 fsVars, netVars, probe>>

(* ------------------------------ transport ----------------------------- *)

\* `${CDN_BASE}/versions.json`, `${CDN_BASE}/${version}/src.zip`, and the
\* URLs a redirect may name.
VersionsUrl == "versions.json"

ZipUrl == "src.zip"

Locations == {"loc1", "loc2"}

Statuses == {200, 301, 302, 403, 404, 500}

\* The x-ratelimit-reset header of a response: absent, or a time.
ResetHeaders == {"absent", "1700000000"}

\* A response as far as the status branch may look at it.
Response(status, reset) == [status |-> status, reset |-> reset]

\* new Error(`HTTP ${res.statusCode}: ${res.statusMessage || 'Request failed'}`):
\* the rejection for a final status that is not 200.  Nothing of the
\* response but its status line goes into it.
HttpError(res) == [name |-> "Error", message |-> <<"HTTP", res.status>>]

\* The err the request's or the stream's 'error' event hands to reject.
EventError(from) == [name |-> "Error", message |-> <<from>>]

\* res.statusCode === 302 || res.statusCode === 301
IsRedirect(status) == status = 302 \/ status = 301

\* A redirect followed by asking the same URL again.
RedirectUrl_SameUrl(url, location) == url

\* The URL the request that follows a redirect goes to:
\* fetchUrl(res.headers.location), downloadFile(res.headers.location, dest).
RedirectUrl(url, location) == location

\* https.get(url, ...) issued by `by`
Request(by, url) == netLog' = Append(netLog, [by |-> by, url |-> url])

\* The body chunk the server sends as the i-th of its response number h.
Chunk(h, i) == <<h, i>>

\* firstArg === '--list-versions' || firstArg === '-lv': listVersions()
\* awaits fetchUrl(`${CDN_BASE}/versions.json`).
MainList ==
  /\ pc = "main"
  /\ \E firstArg \in {Str(ListLong), Str(ListShort)} : pc' = "listVersions"
  /\ fetch' = [NoFetch EXCEPT !.fn = "fetchUrl", !.st = "requested"]
  /\ Request("fetchUrl", VersionsUrl)
  /\ UNCHANGED <<envVars, interactive, projectName, versionLen, lastCheck, source, exitCode,
                 outcome, fileCount, fsVars, locs, data, fileOpen, probe>>

\* fetchUrl, response callback, 301 / 302: fetchUrl(res.headers.location)
FetchUrlRedirect ==
  /\ fetch.fn = "fetchUrl" /\ fetch.st = "requested" /\ pc # "exited"
  /\ fetch.hops < MaxHops
  /\ \E status \in Statuses, location \in Locations :
       /\ IsRedirect(status)
       /\ locs' = Append(locs, location)
       /\ Request("fetchUrl", RedirectUrl(netLog[Len(netLog)].url, location))
  /\ fetch' = [fetch EXCEPT !.hops = @ + 1]
  /\ UNCHANGED <<envVars, mainVars, fsVars, data, fileOpen, probe>>

\* fetchUrl, response callback, any other status but 200: reject
FetchUrlStatus ==
  /\ fetch.fn = "fetchUrl" /\ fetch.st = "requested" /\ pc # "exited"
  /\ \E status \in Statuses, reset \in ResetHeaders :
       /\ ~IsRedirect(status) /\ status # 200
       /\ fetch' = [fetch EXCEPT !.st = "rejected", !.res = Response(status, reset),
                                 !.err = HttpError(Response(status, reset))]
  /\ UNCHANGED <<envVars, mainVars, fsVars, netLog, locs, data, fileOpen, probe>>

\* fetchUrl, response callback, 200: let data = ''; the listeners are set
FetchUrlResponse ==
  /\ fetch.fn = "fetchUrl" /\ fetch.st = "requested" /\ pc # "exited"
  /\ \E status \in Statuses : status = 200
  /\ fetch' = [fetch EXCEPT !.st = "body"]
  /\ data' = <<>>
  /\ UNCHANGED <<envVars, mainVars, fsVars, netLog, locs, fileOpen, probe>>

\* res.on('data', chunk => data += chunk)
FetchUrlData ==
  /\ fetch.fn = "fetchUrl" /\ fetch.st = "body" /\ pc # "exited"
  /\ fetch.chunks < MaxChunks
  /\ data' = Append(data, Chunk(fetch.hops, fetch.chunks + 1))
  /\ fetch' = [fetch EXCEPT !.chunks = @ + 1]
  /\ UNCHANGED <<envVars, mainVars, fsVars, netLog, locs, fileOpen, probe>>

\* res.on('end', () => resolve(data))
FetchUrlEnd ==
  /\ fetch.fn = "fetchUrl" /\ fetch.st = "body" /\ pc # "exited"
  /\ fetch' = [fetch EXCEPT !.st = "resolved"]
  /\ UNCHANGED <<envVars, mainVars, fsVars, netLog, locs, data, fileOpen, probe>>

\* .on('error', reject): before the response or while the body arrives
FetchUrlError ==
  /\ fetch.fn = "fetchUrl" /\ fetch.st \in {"requested", "body"} /\ pc # "exited"
  /\ fetch' = [fetch EXCEPT !.st = "rejected", !.err = EventError("request")]
  /\ UNCHANGED <<envVars, mainVars, fsVars, netLog, locs, data, fileOpen, probe>>

\* listVersions after the await: JSON.parse(response) and the listing, which
\* throw into the catch block for a body that is not the expected JSON;
\* then main's process.exit(0).
ListVersionsDone ==
  /\ pc = "listVersions" /\ fetch.st = "resolved"
  /\ \E parses \in BOOLEAN : IF parses THEN Exit(0, "listed") ELSE Exit(1, "listFailed")
  /\ UNCHANGED <<envVars, interactive, projectName, versionLen, lastCheck, source, fileCount,
                 fsVars, netVars, probe>>

\* The catch block of listVersions ending the process with code 0.
ListVersionsCatch_ExitZero ==
  /\ pc = "listVersions" /\ fetch.st = "rejected"
  /\ Exit(0, "listFailed")
  /\ UNCHANGED <<envVars, interactive, projectName, versionLen, lastCheck, source, fileCount,
                 fsVars, netVars, probe>>

\* listVersions, catch (error): process.exit(1)
ListVersionsCatch ==
  /\ pc = "listVersions" /\ fetch.st = "rejected"
  /\ Exit(1, "listFailed")
  /\ UNCHANGED <<envVars, interactive, projectName, versionLen, lastCheck, source, fileCount,
                 fsVars, netVars, probe>>

(* -------------------------- source resolution ------------------------- *)

\* A promise whose every resolve call replaces the value.
Resolve_LastCallWins(p, value) == [p EXCEPT !.result = value]

\* resolve(value) of the probe's promise: the first call settles it.
Resolve(p, value) == IF p.result = "pending" THEN [p EXCEPT !.result = value] ELSE p

\* resolve(res.statusCode === 200)
ProbeAnswer(status) == IF status = 200 THEN "true" ELSE "false"

\* downloadFile(url, dest) called: the write stream is created, the request
\* is issued.
CallDownloadFile ==
  /\ fetch' = [NoFetch EXCEPT !.fn = "downloadFile", !.st = "requested"]
  /\ fileOpen' = "pending"
  /\ Request("downloadFile", ZipUrl)

\* downloadFramework with the liveness probe in front of the cache lookup.
CacheLookup_ProbeFirst ==
  /\ pc = "downloadFramework" /\ build = "cdn"
  /\ pc' = "probe"
  /\ probe' = [st |-> "inflight", result |-> "pending", status |-> 0]
  /\ Request("probe", VersionsUrl)
  /\ source' = IF cacheHas THEN "LocalCache" ELSE source
  /\ UNCHANGED <<envVars, interactive, projectName, versionLen, lastCheck, exitCode, outcome,
                 fileCount, fsVars, locs, fetch, data, fileOpen>>

\* downloadFramework of the cdn variant up to the first await:
\* fs.existsSync(localZipPath) sends it to extractZip(localZipPath) or to
\* checkServerAvailability().
CacheLookup ==
  /\ pc = "downloadFramework" /\ build = "cdn"
  /\ IF cacheHas
       THEN /\ source' = "LocalCache"
            /\ pc' = "extract"
            /\ UNCHANGED <<probe, netLog>>
       ELSE /\ pc' = "probe"
            /\ probe' = [st |-> "inflight", result |-> "pending", status |-> 0]
            /\ Request("probe", VersionsUrl)
            /\ UNCHANGED source
  /\ UNCHANGED <<envVars, interactive, projectName, versionLen, lastCheck, exitCode, outcome,
                 fileCount, fsVars, locs, fetch, data, fileOpen>>

\* checkServerAvailability, response callback
ProbeResponse ==
  /\ probe.st = "inflight" /\ pc # "exited"
  /\ \E status \in Statuses :
       probe' = [Resolve(probe, ProbeAnswer(status)) EXCEPT !.st = "responded", !.status = status]
  /\ UNCHANGED <<envVars, mainVars, fsVars, netVars>>

\* req.on('error', () => resolve(false)): a connection error, an error
\* while the body is drained, or the error that follows req.destroy()
ProbeError ==
  /\ probe.st \in {"inflight", "responded", "destroyed"} /\ pc # "exited"
  /\ probe' = [Resolve(probe, "false") EXCEPT !.st = "closed"]
  /\ UNCHANGED <<envVars, mainVars, fsVars, netVars>>

\* req.on('timeout', () => { req.destroy(); resolve(false); })
ProbeTimeout ==
  /\ probe.st \in {"inflight", "responded"} /\ pc # "exited"
  /\ probe' = [Resolve(probe, "false") EXCEPT !.st = "destroyed"]
  /\ UNCHANGED <<envVars, mainVars, fsVars, netVars>>

\* downloadFramework going on to downloadFile whatever the probe answered.
ProbeAwait_Unchecked ==
  /\ pc = "probe" /\ probe.result # "pending"
  /\ source' = "RemoteArchive"
  /\ pc' = "download"
  /\ CallDownloadFile
  /\ UNCHANGED <<envVars, interactive, projectName, versionLen, lastCheck, fileCount,
                 exitCode, outcome, fsVars, locs, data, probe>>

\* if (!await checkServerAvailability()) throw new Error('CDN server is
\* currently unreachable'), caught by main: process.exit(1); otherwise
\* downloadFile(`${CDN_BASE}/${version}/src.zip`, tempZip).
ProbeAwait ==
  /\ pc = "probe" /\ probe.result # "pending"
  /\ IF probe.result = "false"
       THEN /\ Exit(1, "sourceUnavailable")
            /\ UNCHANGED <<source, netLog, fetch, fileOpen>>
       ELSE /\ source' = "RemoteArchive"
            /\ pc' = "download"
            /\ CallDownloadFile
            /\ UNCHANGED <<exitCode, outcome>>
  /\ UNCHANGED <<envVars, interactive, projectName, versionLen, lastCheck, fileCount,
                 fsVars, locs, data, probe>>

\* downloadFramework of src/install.js up to the first await:
\* downloadFile(zipUrl, tempZip).
StartDownload ==
  /\ pc = "downloadFramework" /\ build # "cdn"
  /\ source' = "RemoteArchive"
  /\ pc' = "download"
  /\ CallDownloadFile
  /\ UNCHANGED <<envVars, interactive, projectName, versionLen, lastCheck, exitCode, outcome,
                 fileCount, fsVars, locs, data, probe>>

(* ----------------------------- downloadFile --------------------------- *)

\* fs.unlinkSync(dest): removes the file, throws when there is none
UnlinkSync(file) ==
  IF file.exists THEN [threw |-> FALSE, file |-> NoFile] ELSE [threw |-> TRUE, file |-> file]

\* The callback without its fs.unlinkSync(dest): reject(err) alone.
UnlinkThenReject_RejectOnly(err, res) ==
  /\ fetch' = [fetch EXCEPT !.st = "rejected", !.err = err, !.res = res]
  /\ UNCHANGED <<tempZip, pc, exitCode, outcome>>

\* { fs.unlinkSync(dest); reject(err); } inside an event callback.  An
\* unlinkSync that throws there is an uncaught exception: the process ends
\* with exit code 1 and the promise is never settled.
UnlinkThenReject(err, res) ==
  IF UnlinkSync(tempZip).threw
    THEN Exit(1, "crashed") /\ UNCHANGED <<tempZip, fetch>>
    ELSE /\ tempZip' = UnlinkSync(tempZip).file
         /\ fetch' = [fetch EXCEPT !.st = "rejected", !.err = err, !.res = res]
         /\ UNCHANGED <<pc, exitCode, outcome>>

Downloading == fetch.fn = "downloadFile" /\ pc = "download"

\* The write stream has opened dest (flags 'w'): the file exists, empty.
FileOpened ==
  /\ Downloading /\ fileOpen = "pending" /\ fetch.st \in {"requested", "body"}
  /\ fileOpen' = "open"
  /\ tempZip' = FileOf(<<>>)
  /\ UNCHANGED <<envVars, mainVars, disk, archive, netLog, locs, fetch, data, probe>>

\* file.on('error', ...) for a stream that could not open dest
FileOpenError ==
  /\ Downloading /\ fileOpen = "pending" /\ fetch.st \in {"requested", "body"}
  /\ fileOpen' = "failed"
  /\ UnlinkThenReject(EventError("file"), NoRes)
  /\ UNCHANGED <<envVars, interactive, projectName, versionLen, lastCheck, source, fileCount,
                 disk, archive, netLog, locs, data, probe>>

\* Response callback, 301 / 302: fs.unlinkSync(dest), then
\* downloadFile(res.headers.location, dest) with a new write stream.
DownloadRedirect ==
  /\ Downloading /\ fetch.st = "requested"
  /\ fetch.hops < MaxHops
  /\ \E status \in Statuses, location \in Locations :
       /\ IsRedirect(status)
       /\ IF UnlinkSync(tempZip).threw
            THEN /\ Exit(1, "crashed")
                 /\ UNCHANGED <<tempZip, fetch, fileOpen, netLog, locs>>
            ELSE /\ tempZip' = UnlinkSync(tempZip).file
                 /\ fetch' = [fetch EXCEPT !.hops = @ + 1]
                 /\ fileOpen' = "pending"
                 /\ locs' = Append(locs, location)
                 /\ Request("downloadFile", RedirectUrl(netLog[Len(netLog)].url, location))
                 /\ UNCHANGED <<pc, exitCode, outcome>>
  /\ UNCHANGED <<envVars, interactive, projectName, versionLen, lastCheck, source, fileCount,
                 disk, archive, data, probe>>

\* Response callback, any other status but 200: unlinkSync, reject
DownloadStatus ==
  /\ Downloading /\ fetch.st = "requested"
  /\ \E status \in Statuses, reset \in ResetHeaders :
       /\ ~IsRedirect(status) /\ status # 200
       /\ UnlinkThenReject(HttpError(Response(status, reset)), Response(status, reset))
  /\ UNCHANGED <<envVars, interactive, projectName, versionLen, lastCheck, source, fileCount,
                 disk, archive, netLog, locs, data, fileOpen, probe>>

\* Response callback, 200: res.pipe(file); file.on('finish', ...)
DownloadResponse ==
  /\ Downloading /\ fetch.st = "requested"
  /\ \E status \in Statuses : status = 200
  /\ fetch' = [fetch EXCEPT !.st = "body"]
  /\ UNCHANGED <<envVars, mainVars, fsVars, netLog, locs, data, fileOpen, probe>>

\* A chunk of the body reaches the file (the stream writes once it is open).
DownloadData ==
  /\ Downloading /\ fetch.st = "body" /\ fileOpen = "open"
  /\ fetch.chunks < MaxChunks
  /\ tempZip.exists
  /\ tempZip' = FileOf(Append(tempZip.content, Chunk(fetch.hops, fetch.chunks + 1)))
  /\ fetch' = [fetch EXCEPT !.chunks = @ + 1]
  /\ UNCHANGED <<envVars, mainVars, disk, archive, netLog, locs, data, fileOpen, probe>>

\* The body has ended and is written: file.on('finish'): file.close(); resolve()
DownloadFinish ==
  /\ Downloading /\ fetch.st = "body" /\ fileOpen = "open"
  /\ fetch' = [fetch EXCEPT !.st = "resolved"]
  /\ UNCHANGED <<envVars, mainVars, fsVars, netLog, locs, data, fileOpen, probe>>

\* .on('error', err => { fs.unlinkSync(dest); reject(err); }) of the request:
\* before the response, or while the body arrives
DownloadError ==
  /\ Downloading /\ fetch.st \in {"requested", "body"}
  /\ UnlinkThenReject(EventError("request"), NoRes)
  /\ UNCHANGED <<envVars, interactive, projectName, versionLen, lastCheck, source, fileCount,
                 disk, archive, netLog, locs, data, fileOpen, probe>>

\* file.on('error', ...) for a write that fails while the body is piped
FileWriteError ==
  /\ Downloading /\ fetch.st = "body" /\ fileOpen = "open"
  /\ fileOpen' = "failed"
  /\ UnlinkThenReject(EventError("file"), NoRes)
  /\ UNCHANGED <<envVars, interactive, projectName, versionLen, lastCheck, source, fileCount,
                 disk, archive, netLog, locs, data, probe>>

\* A catch block that calls downloadFile once more after a rejection.
DownloadCatch_Retry ==
  /\ Downloading /\ fetch.st = "rejected"
  /\ CallDownloadFile
  /\ UNCHANGED <<envVars, mainVars, fsVars, locs, data, probe>>

\* await downloadFile(...) throws; main's catch (error): process.exit(1)
DownloadCatch ==
  /\ Downloading /\ fetch.st = "rejected"
  /\ Exit(1, "transportError")
  /\ UNCHANGED <<envVars, interactive, projectName, versionLen, lastCheck, source, fileCount,
                 fsVars, netVars, probe>>

\* await downloadFile(...) returns.  src/install.js creates the target
\* directory here: fs.mkdirSync(targetDir, {recursive: true}).
DownloadDone ==
  /\ Downloading /\ fetch.st = "resolved"
  /\ pc' = "extract"
  /\ disk' = IF build = "cdn" THEN disk ELSE MkdirSync(disk, TargetDir)
  /\ UNCHANGED <<envVars, interactive, projectName, versionLen, lastCheck, source, exitCode,
                 outcome, fileCount, tempZip, archive, netVars, probe>>

(* ------------------------------ extractZip ---------------------------- *)

Given(a) == [given |-> TRUE, a |-> a]

\* The directory the extraction tool writes into: __temp_extract__ in
\* src/install.js, destDir in the cdn variant.
UnzipDir == IF build = "cdn" THEN TargetDir ELSE TempExtract

\* The disk when the extraction tool starts: the cdn variant has created
\* destDir (fs.mkdirSync(destDir, {recursive: true})).
BeforeUnzip == IF build = "cdn" THEN MkdirSync(disk, TargetDir) ELSE disk

\* The disk after an extraction that wrote every entry of archive a.
Unzipped(a) == BeforeUnzip \cup {Dir(UnzipDir)} \cup ArchiveEntries(a, UnzipDir)

\* The directory whose entries extractZip moves into destDir.
MoveSource(tree) ==
  IF build = "cdn"
    THEN (IF SingleDirectory(tree, TargetDir) THEN NestedDir(tree, TargetDir) ELSE TargetDir)
    ELSE StagingSource(tree)

\* What extractZip does after the extraction tool returned.
AfterUnzip(tree, order) ==
  IF build = "cdn"
    THEN FlattenInPlace(tree, TargetDir, IF SingleDirectory(tree, TargetDir) THEN order ELSE <<>>)
    ELSE MoveFromStaging(tree, TargetDir, order)

\* extractZip(zipPath, destDir) with an extraction tool that succeeds; a
\* renameSync or rmdirSync that throws ends the run in main's catch.
ExtractZip ==
  /\ pc = "extract"
  /\ \E a \in Archives :
       \E order \in Orders(Readdir(Unzipped(a), MoveSource(Unzipped(a)))) :
         LET r == AfterUnzip(Unzipped(a), order)
         IN  /\ archive' = Given(a)
             /\ disk' = r.tree
             /\ IF r.threw
                  THEN Exit(1, "extractionError")
                  ELSE pc' = "extracted" /\ UNCHANGED <<exitCode, outcome>>
  /\ UNCHANGED <<envVars, interactive, projectName, versionLen, lastCheck, source, fileCount,
                 tempZip, netVars, probe>>

\* A failing extraction after which the target directory is removed again.
UnzipFails_RollsBack ==
  /\ pc = "extract"
  /\ disk' = RmSync(disk, TargetDir)
  /\ Exit(1, "extractionError")
  /\ UNCHANGED <<envVars, interactive, projectName, versionLen, lastCheck, source, fileCount,
                 tempZip, archive, netVars, probe>>

\* extractZip(zipPath, destDir) with an extraction tool that fails (execAsync
\* rejects) after it wrote some part of what the file holds: the error
\* reaches main's catch, process.exit(1).
UnzipFails ==
  /\ pc = "extract"
  /\ \E a \in Archives :
       \E partial \in UnzipPartials(a, UnzipDir) : disk' = BeforeUnzip \cup partial
  /\ Exit(1, "extractionError")
  /\ UNCHANGED <<envVars, interactive, projectName, versionLen, lastCheck, source, fileCount,
                 tempZip, archive, netVars, probe>>

\* downloadFramework after extractZip: fs.unlinkSync(tempZip) on the download
\* path, return countFiles(targetDir); main reports and ends.
Report ==
  /\ pc = "extracted"
  /\ IF source = "RemoteArchive"
       THEN IF UnlinkSync(tempZip).threw
              THEN Exit(1, "extractionError") /\ UNCHANGED <<tempZip, fileCount>>
              ELSE /\ tempZip' = UnlinkSync(tempZip).file
                   /\ fileCount' = countFiles(disk, TargetDir)
                   /\ Exit(0, "installed")
       ELSE /\ fileCount' = countFiles(disk, TargetDir)
            /\ Exit(0, "installed")
            /\ UNCHANGED tempZip
  /\ UNCHANGED <<envVars, interactive, projectName, versionLen, lastCheck, source,
                 disk, archive, netVars, probe>>

(* ---------------------------- specification --------------------------- *)

Next ==
  \/ MainHelp \/ MainList \/ MainName \/ Prompt \/ ValidateArg \/ Banner
  \/ FetchUrlRedirect \/ FetchUrlStatus \/ FetchUrlResponse \/ FetchUrlData
  \/ FetchUrlEnd \/ FetchUrlError \/ ListVersionsDone \/ ListVersionsCatch
  \/ CacheLookup \/ ProbeResponse \/ ProbeError \/ ProbeTimeout \/ ProbeAwait
  \/ StartDownload \/ FileOpened \/ FileOpenError \/ DownloadRedirect
  \/ DownloadStatus \/ DownloadResponse \/ DownloadData \/ DownloadFinish
  \/ DownloadError \/ FileWriteError \/ DownloadCatch \/ DownloadDone
  \/ ExtractZip \/ UnzipFails \/ Report

Spec == Init /\ [][Next]_vars

(* ------------------- validateProjectName on its own ------------------- *)

\* The names that may exist in the working directory when the validator is
\* called on its own.
ExistingNames == {<<"a">>, <<"/">>, <<"-", "a">>}

\* Any candidate (a word, the empty string, or no name at all) against any
\* working directory.
InitValidate ==
  /\ build \in Builds
  /\ existing \in SUBSET ExistingNames
  /\ cacheHas = FALSE
  /\ pc = "validateProjectName"
  /\ interactive = FALSE
  /\ projectName \in {Null} \cup {Str(w) : w \in Words}
  /\ versionLen = 6
  /\ lastCheck = NoCheck
  /\ source = "none"
  /\ exitCode = -1
  /\ outcome = "running"
  /\ fileCount = -1
  /\ tempZip = NoFile
  /\ disk = {}
  /\ archive = [given |-> FALSE]
  /\ netLog = <<>>
  /\ locs = <<>>
  /\ fetch = NoFetch
  /\ data = <<>>
  /\ fileOpen = "none"
  /\ probe = NoProbe

\* One call validateProjectName(projectName)
CallValidate ==
  /\ pc = "validateProjectName"
  /\ lastCheck' = Checked(projectName)
  /\ pc' = "returned"
  /\ UNCHANGED <<envVars, interactive, projectName, versionLen, source, exitCode, outcome,
                 fileCount, fsVars, netVars, probe>>

SpecValidate == InitValidate /\ [][CallValidate]_vars

(* ----------------------- the file count on its own -------------------- *)

\* The trees an extraction may have left under the target directory: files
\* and directories at three depths, empty directories included.
CountNodes ==
  {File(<<"a.txt">>), File(<<"c.txt">>), File(<<"e.txt">>), Dir(<<"sub">>),
   File(<<"sub", "b.txt">>), Dir(<<"sub", "d">>), File(<<"sub", "d", "f.txt">>),
   File(<<"sub", "d", "g.txt">>)}

CountTrees == {P \in SUBSET CountNodes : Closed(P, <<>>)}

\* downloadFramework stands after extractZip, with the archive's payload in
\* the target directory: from the cache in the cdn variant, from the
\* downloaded temp.zip in src/install.js.
InitCount ==
  /\ build \in Builds
  /\ existing = {<<"a">>, <<"/">>}
  /\ cacheHas = (build = "cdn")
  /\ pc = "extracted"
  /\ interactive = FALSE
  /\ projectName = Str(<<"-">>)
  /\ versionLen = 6
  /\ lastCheck = [called |-> TRUE, name |-> Str(<<"-">>), error |-> "none", looked |-> TRUE]
  /\ source = IF build = "cdn" THEN "LocalCache" ELSE "RemoteArchive"
  /\ exitCode = -1
  /\ outcome = "running"
  /\ fileCount = -1
  /\ tempZip = IF build = "cdn" THEN NoFile ELSE FileOf(<<>>)
  /\ \E P \in CountTrees :
       /\ disk = {Dir(TargetDir)} \cup Rebase(P, <<>>, TargetDir)
       /\ archive = Given([wrapped |-> TRUE, payload |-> P])
  /\ netLog = IF build = "cdn" THEN <<>> ELSE <<[by |-> "downloadFile", url |-> ZipUrl]>>
  /\ locs = <<>>
  /\ fetch = IF build = "cdn" THEN NoFetch
             ELSE [NoFetch EXCEPT !.fn = "downloadFile", !.st = "resolved"]
  /\ data = <<>>
  /\ fileOpen = IF build = "cdn" THEN "none" ELSE "open"
  /\ probe = NoProbe

SpecCount == InitCount /\ [][Report]_vars


(* ------------------------------- claims ------------------------------- *)

\* The result the rules of the validator give for name n, read off the rules
\* in their order: empty or absent, then a character outside the class,
\* then an existing entry.
RuleResult(n) ==
  IF n = Null \/ n = Str(<<>>) THEN "EmptyName"
  ELSE IF {n.s[i] : i \in 1..Len(n.s)} \ NameChars # {} THEN "InvalidCharacters"
  ELSE IF n.s \in existing THEN "DirectoryExists"
  ELSE "none"

\* C1: validateProjectName applies its rules in a fixed order and the first
\* failing rule decides: an empty or absent name gives EmptyName and a name
\* with a character outside the class gives InvalidCharacters, both without
\* a lookup in the file system; otherwise an existing entry gives
\* DirectoryExists; otherwise there is no error.  The call leaves the file
\* system as it was.
C1_ValidatorRules ==
  /\ [](lastCheck.called =>
          /\ lastCheck.error = RuleResult(lastCheck.name)
          /\ lastCheck.error \in {"EmptyName", "InvalidCharacters"} => ~lastCheck.looked)
  /\ [][lastCheck' # lastCheck => UNCHANGED <<existing, tempZip, disk>>]_vars

\* C1 witness: a name that is made of allowed characters and exists was
\* validated and rejected with DirectoryExists.
C1_Witness ==
  /\ lastCheck.called
  /\ lastCheck.name = Str(<<"a">>)
  /\ lastCheck.error = "DirectoryExists"

\* The requests downloadFile / fetchUrl / the probe issued, in order.
RequestsBy(by) == SelectSeq(netLog, LAMBDA r : r.by = by)

\* C2: whenever downloadFile ends in failure (a final status that is not
\* 200, a request error before or in the middle of the body, a write stream
\* error), temp.zip does not exist when the failure reaches the caller, nor
\* once main has handled it: the caller sees no partly written file.
C2_NoPartialFile ==
  (fetch.fn = "downloadFile" /\ (fetch.st = "rejected" \/ outcome \in {"transportError", "crashed"}))
    => ~tempZip.exists

\* C2 witness: a download that failed after body chunks were written.
C2_Witness ==
  /\ fetch.fn = "downloadFile" /\ fetch.st = "rejected"
  /\ fetch.chunks > 0
  /\ ~tempZip.exists

\* A run has ended as Reported or as Failed.
Terminal == pc = "exited" /\ outcome \notin {"help", "listed", "listFailed"}

\* C3: in every terminal state of a run, Reported or Failed, no staging
\* artifact is left: temp.zip and __temp_extract__ do not exist, also when
\* the extraction failed after the archive was downloaded.
C3_NoStagingLeft == Terminal => ~tempZip.exists /\ ~Exists(disk, TempExtract)

\* downloadFramework has passed its source decision, or the run ended in it.
Resolving ==
  \/ pc \in {"probe", "download", "extract", "extracted"}
  \/ outcome \in {"sourceUnavailable", "transportError", "crashed", "extractionError", "installed"}

\* C4: in the cdn variant, when the local release cache holds the bundle,
\* the run uses it and issues no network request up to its terminal state,
\* whether the extraction succeeds or fails; the source, once chosen, is
\* never chosen again.
C4_CacheNoNetwork ==
  /\ []((build = "cdn" /\ cacheHas /\ Resolving) =>
          /\ netLog = <<>> /\ probe = NoProbe /\ fetch = NoFetch
          /\ source = "LocalCache"
          /\ pc \in {"extract", "extracted", "exited"})
  /\ [][source # "none" => source' = source]_vars

\* C4 witness: a run from the cache whose extraction failed.
C4_Witness ==
  /\ build = "cdn" /\ cacheHas /\ source = "LocalCache"
  /\ outcome = "extractionError"

\* C5: without a cache bundle, a probe that answers false fails the run as
\* SourceUnavailable with exit code 1: downloadFile is never called, and
\* neither temp.zip nor the target directory has been created.
C5_ProbeFalseFailsFast ==
  (probe.result = "false") =>
    /\ pc \in {"probe", "exited"}
    /\ pc = "exited" => outcome = "sourceUnavailable" /\ exitCode = 1
    /\ RequestsBy("downloadFile") = <<>> /\ fileOpen = "none"
    /\ ~tempZip.exists /\ ~Exists(disk, TargetDir)

\* C5 witness: the probe timed out and the run ended as SourceUnavailable.
C5_Witness ==
  /\ outcome = "sourceUnavailable" /\ exitCode = 1
  /\ probe.st = "destroyed" /\ probe.status = 0

\* The body of the final response, as far as it has arrived.
FinalBody == [i \in 1..fetch.chunks |-> Chunk(Len(locs), i)]

\* The URL the first request of fn goes to.
FirstUrl(fn) == IF fn = "fetchUrl" THEN VersionsUrl ELSE ZipUrl

\* C6: a fetch that was answered by N redirects (301 or 302) and then a 200
\* has issued exactly N+1 requests, the first to the URL asked for and each
\* following one to the Location of the response before it, and delivers the
\* body of the final response only: fetchUrl as its value, downloadFile as
\* the content of the destination file.
C6_RedirectChain ==
  /\ fetch.fn # "none" =>
       /\ Len(RequestsBy(fetch.fn)) = Len(locs) + 1
       /\ RequestsBy(fetch.fn)[1].url = FirstUrl(fetch.fn)
       /\ \A i \in 1..Len(locs) : RequestsBy(fetch.fn)[i + 1].url = locs[i]
       /\ fetch.hops <= Len(locs)
  /\ fetch.st = "resolved" =>
       /\ fetch.hops = Len(locs)
       /\ fetch.fn = "fetchUrl" => data = FinalBody
       /\ (fetch.fn = "downloadFile" /\ pc \in {"download", "extract", "extracted"}) =>
            tempZip = FileOf(FinalBody)

\* C6 witness: a download through two redirects to different locations whose
\* final response had two chunks.
C6_Witness ==
  /\ fetch.fn = "downloadFile" /\ fetch.st = "resolved"
  /\ Len(locs) = 2 /\ locs[1] # locs[2]
  /\ fetch.chunks = 2
  /\ tempZip = FileOf(<<Chunk(2, 1), Chunk(2, 2)>>)

\* C7: once extractZip has run on an archive, wrapped in a single top-level
\* directory or not, it has not thrown and the target directory holds
\* exactly the payload, without the wrapper: the same tree for both forms of
\* archive, for every payload, also one with an entry named like the wrapper.
C7_SameTree ==
  archive.given =>
    /\ outcome # "extractionError"
    /\ Subtree(disk, TargetDir) = {Dir(TargetDir)} \cup Rebase(archive.a.payload, <<>>, TargetDir)

PastValidation ==
  \/ pc \in {"banner", "downloadFramework", "probe", "download", "extract", "extracted"}
  \/ source # "none"
  \/ outcome \in {"fatal", "sourceUnavailable", "transportError", "crashed", "extractionError",
                  "installed"}

\* C9: a name the validator rejects is handled by whether a name was given
\* on the command line.  Given: the run ends with exit code 1, was never at
\* the prompt, and has made no request and no change on disk.  Not given: the
\* run stays at the prompt, and leaves it only with an answer the validator
\* accepts.  Nothing after the validation runs with a rejected name.
C9_ValidationPolicies ==
  /\ [](pc = "prompt" => interactive)
  /\ []((lastCheck.called /\ lastCheck.error # "none" /\ ~interactive) =>
          /\ pc = "exited" /\ outcome = "invalidName" /\ exitCode = 1
          /\ netLog = <<>> /\ disk = {} /\ ~tempZip.exists)
  /\ []((lastCheck.called /\ lastCheck.error # "none" /\ interactive) =>
          /\ pc = "prompt"
          /\ netLog = <<>> /\ disk = {} /\ ~tempZip.exists)
  /\ [](PastValidation =>
          lastCheck.called /\ lastCheck.error = "none" /\ lastCheck.name = projectName)
  /\ [][pc = "prompt" /\ pc' # "prompt" => pc' = "banner" /\ lastCheck'.error = "none"]_vars

\* C9 witness: an answer at the prompt was rejected and the run is at the
\* prompt again.
C9_Witness ==
  /\ interactive /\ pc = "prompt"
  /\ lastCheck.called /\ lastCheck.error = "DirectoryExists"

\* C10: the probe settles once, with a boolean: true exactly when a response
\* with status 200 arrived, false for any other status, a connection error
\* or a timeout, whatever events follow (a timeout or an error after the
\* response, the error after the request was destroyed); waiting for it
\* ends in the download or in SourceUnavailable, never in an exception.
C10_ProbeBoolean ==
  /\ [](/\ probe.result \in {"pending", "true", "false"}
        /\ probe.st \in {"responded", "destroyed", "closed"} => probe.result # "pending"
        /\ probe.st # "idle" => (probe.result = "true" <=> probe.status = 200))
  /\ [][probe.result # "pending" => probe'.result = probe.result]_vars
  /\ [][pc = "probe" /\ pc' # "probe" =>
          \/ pc' = "download" /\ probe.result = "true"
          \/ pc' = "exited" /\ outcome' = "sourceUnavailable" /\ probe.result = "false"]_vars

\* C10 witness: the response had status 200 and an error event followed it.
C10_Witness ==
  /\ probe.st = "closed" /\ probe.status = 200
  /\ probe.result = "true"

\* C11: a fetch whose final response has status 403 and carries a
\* rate-limit-reset header is rejected as RateLimited with the reset time of
\* the header, not with the generic error of the other non-200 statuses.
C11_RateLimited ==
  (fetch.st = "rejected" /\ fetch.res.status = 403 /\ fetch.res.reset # "absent") =>
    /\ fetch.err.name = "RateLimited"
    /\ fetch.err.resetTime = fetch.res.reset

\* The entries under directory d that are not directories.
FilesUnder(tree, d) == {n \in Subtree(tree, d) : ~n.dir}

\* C12: the file count of a successful run is the number of entries under
\* the target directory that are not directories, at any depth, as the
\* directory stands at the end of the run: a file counts 1, a directory
\* counts what its subtree counts, an empty directory counts 0.
C12_FileCount ==
  /\ outcome = "installed" => fileCount = Cardinality(FilesUnder(disk, TargetDir))
  /\ outcome # "installed" => fileCount = -1

\* C12 witness: three files and one empty subdirectory were counted as 3.
C12_Witness ==
  /\ outcome = "installed" /\ fileCount = 3
  /\ Cardinality(Subtree(disk, TargetDir)) = 5
  /\ \E e \in Readdir(disk, TargetDir) :
       IsDirectory(disk, TargetDir \o <<e>>) /\ Readdir(disk, TargetDir \o <<e>>) = {}

\* The orchestrator state main stands in.
Stage ==
  IF pc \in {"main", "prompt", "validate"} THEN "Idle"
  ELSE IF pc \in {"banner", "downloadFramework", "probe"} THEN "NameValidated"
  ELSE IF pc = "download" THEN "SourceResolved"
  ELSE IF pc \in {"extract", "extracted"} THEN "Materializing"
  ELSE IF pc = "listVersions" \/ outcome \in {"help", "listed", "listFailed"} THEN "Listing"
  ELSE IF outcome = "installed" THEN "Reported"
  ELSE "Failed"

\* The steps of main from one position to another.
Follows(from, to) ==
  \/ from = "main" /\ to \in {"prompt", "validate", "listVersions", "exited"}
  \/ from = "prompt" /\ to = "banner"
  \/ from = "validate" /\ to \in {"banner", "exited"}
  \/ from = "banner" /\ to \in {"downloadFramework", "exited"}
  \/ from = "downloadFramework" /\ to \in {"probe", "download", "extract"}
  \/ from = "probe" /\ to \in {"download", "exited"}
  \/ from = "download" /\ to \in {"extract", "exited"}
  \/ from = "extract" /\ to \in {"extracted", "exited"}
  \/ from = "extracted" /\ to = "exited"
  \/ from = "listVersions" /\ to = "exited"

\* C13: a run moves through Idle, NameValidated, SourceResolved,
\* Materializing and Reported only in this order and ends as Reported or as
\* Failed; the probe has answered before the download is requested, the
\* download has resolved before the extraction starts, the extraction has
\* finished before the files are counted; and the probe, the download and
\* the extraction are each tried at most once: nothing is requested again
\* after a rejection and nothing moves after the run has ended.
C13_StateOrder ==
  /\ [][pc' # pc => Follows(pc, pc')]_vars
  /\ [][pc # "exited"]_vars
  /\ [](Stage = "Reported" => exitCode = 0 /\ fileCount >= 0)
  /\ [](Stage = "Failed" => exitCode = 1 /\ fileCount = -1)
  /\ []((build = "cdn" /\ RequestsBy("downloadFile") # <<>>) => probe.result = "true")
  /\ []((pc \in {"extract", "extracted"} \/ archive.given) =>
          \/ source = "LocalCache" /\ fetch = NoFetch
          \/ source = "RemoteArchive" /\ fetch.st = "resolved")
  /\ [](fileCount >= 0 => archive.given /\ outcome = "installed")
  /\ [](Len(RequestsBy("probe")) <= 1 /\ Len(RequestsBy("downloadFile")) <= Len(locs) + 1)
  /\ [][fetch.st = "rejected" => netLog' = netLog /\ fetch' = fetch]_vars
  /\ [][probe.result # "pending" => RequestsBy("probe")' = RequestsBy("probe")]_vars
  /\ [][archive.given => archive' = archive /\ pc' \in {pc, "exited"}]_vars

\* C13 witness: a run of the cdn variant that probed, downloaded, extracted
\* and reported.
C13_Witness ==
  /\ Stage = "Reported" /\ build = "cdn"
  /\ probe.result = "true" /\ source = "RemoteArchive"
  /\ fetch.st = "resolved" /\ archive.given

FetchGoesOn ==
  /\ fetch'.st = "requested" /\ fetch'.hops = fetch.hops + 1
  /\ Len(netLog') = Len(netLog) + 1
  /\ pc' = pc

\* C15: redirects are followed without a hop limit: however many redirects
\* came before, fetchUrl and downloadFile answer a 301 / 302 with one more
\* request and stay pending, so that a fetch is settled only by a response
\* that is not a redirect or by an error event, and against redirects that
\* never end the run goes on requesting and reaches neither Reported nor
\* Failed.
C15_NoHopLimit ==
  /\ [][FetchUrlRedirect => FetchGoesOn]_vars
  /\ [][DownloadRedirect => FetchGoesOn]_vars
  /\ [](fetch.st \in {"resolved", "rejected"} =>
          \/ fetch.st = "resolved"
          \/ fetch.err # NoErr /\ ~IsRedirect(fetch.res.status))

\* A callback of downloadFile that runs fs.unlinkSync(dest).
CleanupUnlink ==
  DownloadRedirect \/ DownloadStatus \/ DownloadError \/ FileOpenError \/ FileWriteError

\* C16: in downloadFile, however the callbacks of the request (response,
\* redirect, error) and of the write stream (opened, finish, error)
\* interleave, every cleanup unlink finds the destination file, a failed
\* attempt is cleaned up at most once, and no unlink throws out of a
\* callback past the promise.
C16_UnlinkFindsFile ==
  /\ [][CleanupUnlink => tempZip.exists]_vars
  /\ [][(fetch.fn = "downloadFile" /\ fetch.st = "rejected") => tempZip' = tempZip]_vars
  /\ [](outcome # "crashed")

====
